---- MODULE Spec2Model ----
(***************************************************************************)
(* The Search Trips page (src/src/pages/2_Search_Trips.py), the query      *)
(* functions it calls and the geometry functions of the Trip Route page    *)
(* (src/src/utils/data_processing.py), over the static GTFS tables.  A table (DataFrame) is a sequence of rows, a row a record *)
(* of its columns.  A calendar date is its number of days since Monday     *)
(* 2025-01-06, so that the weekday of date d is d % 7 (0 = Monday).        *)
(***************************************************************************)
EXTENDS Integers, Sequences, FiniteSets, TLC

VARIABLES
    df_stops,              \* stops table: rows [stop_id, stop_code, stop_name, stop_lat, stop_lon]
    df_trips,              \* trips table: rows [trip_id, service_id, shape_id]
    df_shapes,             \* shapes table: rows [shape_id, shape_pt_sequence, shape_pt_lat, shape_pt_lon]
    df_stop_times,         \* stop_times table: rows [trip_id, stop_id, stop_sequence]
    df_calendar,           \* calendar table: rows [service_id, monday..sunday, start_date, end_date]
    start_stop,            \* sidebar selectbox
    final_stop,            \* sidebar selectbox
    date,                  \* sidebar date_input
    list_trips,            \* the local list_trips both functions compute, last run
    joined,                \* the functions whose trips/calendar merge was executed, last run
    list_trips_available,  \* page variable, result of search_trips_availables
    list_dates_available,  \* page variable, result of get_trips_if_exists
    error,                 \* exception that ended the last run of the script, or "none"
    message,               \* which st.write result message the last run wrote
    call,                  \* the function of data_processing.py called last, or "none"
    trip_id_list,          \* its argument trip_id_list / list_trips_id
    returned,              \* what it returned, or the exception it raised
    remembered,            \* an earlier call with its arguments and result, for comparison
    disk,                  \* the files: a feed file, the extract directory, timestamp.txt
    loaded,                \* what the loader returned for the feed file
    download,              \* download_gtfs_feed: its position, arguments and locals
    requests_made,         \* the HTTP requests sent so far
    response               \* the argument of get_df_from_live_data

vars == <<df_stops, df_trips, df_shapes, df_stop_times, df_calendar, start_stop, final_stop,
          date, list_trips, joined, list_trips_available, list_dates_available, error,
          message, call, trip_id_list, returned, remembered, disk, loaded, download,
          requests_made, response>>

tables == <<df_stops, df_trips, df_shapes, df_stop_times, df_calendar>>

search == <<start_stop, final_stop, date, list_trips, joined, list_trips_available,
            list_dates_available, error, message>>

geometry == <<call, trip_id_list, returned>>

ingest == <<disk, loaded, download, requests_made, response>>

(***************************************************************************)
(* Bounds of the model.                                                    *)
(***************************************************************************)
MaxStopTimes == 3      \* rows of stop_times
MaxTrips == 2          \* rows of trips
MaxDate == 1           \* the dates of the model are DefaultDate .. DefaultDate + MaxDate

TripIds == <<"T1", "T2">>
StopIds == <<"A", "B", "C">>
ServiceIds == <<"S1", "S2">>
ShapeIds == <<"SH1", "SH2">>
StopSequences == 1..Len(StopIds)

\* datetime.date(2025,12,1), the date_input's default: 329 days after 2025-01-06
DefaultDate == 329
Dates == DefaultDate .. (DefaultDate + MaxDate)

Range(s) == {s[i] : i \in DOMAIN s}

\* no element occurs twice in s
NoRepeat(s) == \A i, j \in DOMAIN s : s[i] = s[j] => i = j

\* Optional[list[str]]: None, or a list
None == [is_none |-> TRUE]
Some(list) == [is_none |-> FALSE, list |-> list]
IndexOf(s, x) == CHOOSE i \in DOMAIN s : s[i] = x

(***************************************************************************)
(* pandas and datetime primitives, as the functions use them.              *)
(***************************************************************************)
weekdays == <<"monday", "tuesday", "wednesday", "thursday", "friday", "saturday", "sunday">>

\* date.strftime("%A").lower()
StrftimeA(d) == weekdays[(d % 7) + 1]

\* Series.drop_duplicates(): the first occurrence of each value, in order
DropDuplicates(s) ==
    LET F[i \in 0..Len(s)] ==
            IF i = 0 THEN <<>>
            ELSE IF \E j \in 1..(i - 1) : s[j] = s[i] THEN F[i - 1]
                 ELSE Append(F[i - 1], s[i])
    IN F[Len(s)]

\* Series.isin(list)
Isin(x, list) == \E i \in DOMAIN list : list[i] = x

\* df[column] as a list
Column(df, c) == [i \in DOMAIN df |-> df[i][c]]

\* left.merge(right, on='service_id', how='inner'): each left row, in order,
\* with each right row of the same service_id, in order
Merge(left, right) ==
    LET F[i \in 0..Len(left)] ==
            IF i = 0 THEN <<>>
            ELSE F[i - 1] \o
                 [k \in 1..Len(SelectSeq(right, LAMBDA r : r.service_id = left[i].service_id))
                    |-> left[i] @@
                        SelectSeq(right, LAMBDA r : r.service_id = left[i].service_id)[k]]
    IN F[Len(left)]

(***************************************************************************)
(* The topology filter: lines 123-130 and 175-182 of data_processing.py.   *)
(***************************************************************************)
\* .query("stop_id == @start_stop or stop_id == @final_stop")
QueryStops(st, s, f) == SelectSeq(st, LAMBDA r : r.stop_id = s \/ r.stop_id = f)

\* as Rank, ranking by descending stop_sequence (rank(ascending=False))
RankDescending(q, i) ==
    1 + Cardinality({j \in DOMAIN q :
            /\ q[j].trip_id = q[i].trip_id
            /\ \/ q[j].stop_sequence > q[i].stop_sequence
               \/ (q[j].stop_sequence = q[i].stop_sequence /\ j < i)})

\* groupby('trip_id')['stop_sequence'].rank(method='first') of row i: its place
\* among the rows of its trip by stop_sequence, ties in row order
Rank(q, i) ==
    1 + Cardinality({j \in DOMAIN q :
            /\ q[j].trip_id = q[i].trip_id
            /\ \/ q[j].stop_sequence < q[i].stop_sequence
               \/ (q[j].stop_sequence = q[i].stop_sequence /\ j < i)})

\* .assign(rank_column=...)
AssignRank(q) == [i \in DOMAIN q |-> [rank_column |-> Rank(q, i)] @@ q[i]]

\* as QueryRank, accepting every later visit ("rank_column >= 2")
QueryRankLater(q, f) == SelectSeq(q, LAMBDA r : r.rank_column >= 2 /\ r.stop_id = f)

\* .query("rank_column == 2 and stop_id == @final_stop")
QueryRank(q, f) == SelectSeq(q, LAMBDA r : r.rank_column = 2 /\ r.stop_id = f)

TopologyFilter(st, s, f) ==
    DropDuplicates(Column(QueryRank(AssignRank(QueryStops(st, s, f)), f), "trip_id"))

(***************************************************************************)
(* search_trips_availables, lines 121-145.                                 *)
(***************************************************************************)
\* the rows of trips selected once per element of the list
LocTripsPerElement(trips, lt) ==
    LET F[i \in 0..Len(lt)] ==
            IF i = 0 THEN <<>>
            ELSE F[i - 1] \o SelectSeq(trips, LAMBDA r : r.trip_id = lt[i])
    IN F[Len(lt)]

\* df_trips.loc[df_trips.trip_id.isin(list_trips)]
LocTrips(trips, lt) == SelectSeq(trips, LAMBDA r : Isin(r.trip_id, lt))

\* as QueryDate, with start_date excluded ("@date > start_date")
QueryDateExclusive(m, d) ==
    SelectSeq(m, LAMBDA r : d > r.start_date /\ d <= r.end_date /\ r[StrftimeA(d)] = TRUE)

\* as QueryDate, without the test of end_date
QueryDateNoEnd(m, d) ==
    SelectSeq(m, LAMBDA r : d >= r.start_date /\ r[StrftimeA(d)] = TRUE)

\* .query(f"@date >= start_date and @date <= end_date and {name_of_date} == True")
QueryDate(m, d) ==
    SelectSeq(m, LAMBDA r : d >= r.start_date /\ d <= r.end_date /\ r[StrftimeA(d)] = TRUE)

\* as TripsAvailable, without drop_duplicates()
TripsAvailableKeepDuplicates(trips, cal, lt, d) ==
    Column(QueryDate(Merge(LocTrips(trips, lt), cal), d), "trip_id")

\* lines 132-143
TripsAvailable(trips, cal, lt, d) ==
    DropDuplicates(Column(QueryDate(Merge(LocTrips(trips, lt), cal), d), "trip_id"))

search_trips_availables(trips, st, cal, s, f, d) ==
    TripsAvailable(trips, cal, TopologyFilter(st, s, f), d)

(***************************************************************************)
(* get_trips_if_exists, lines 175-212.  The value returned is a record:    *)
(* raised is the exception that left the function ("none" when it          *)
(* returned), value the list it returned.                                  *)
(***************************************************************************)
\* explode() puts NaN in the row of an empty list-like
NaN == -1

\* lambda x: [col for col in weekdays if x[col] == 1]
DaysAvailable(x) == SelectSeq(weekdays, LAMBDA col : x[col] = TRUE)

\* a range that stops the day before end_date
DateRangeHalfOpen(a, b) == [i \in 1..(b - a) |-> a + i - 1]

\* pd.date_range(start_date, end_date, freq='D'): every day from start to end,
\* both included; empty when end is before start
DateRange(a, b) == [i \in 1..(b - a + 1) |-> a + i - 1]

\* lines 190-202: the merged rows with the columns days_available and days
DatesForTrips(trips, cal, lt) ==
    LET m == Merge(LocTrips(trips, lt), cal)
    IN [i \in DOMAIN m |->
            [service_id |-> m[i].service_id,
             days_available |-> DaysAvailable(m[i]),
             days |-> DateRange(m[i].start_date, m[i].end_date)]]

\* dates_for_trips.explode('days'): one row per element of days, and one row
\* holding NaN for an empty days
Explode(df) ==
    LET F[i \in 0..Len(df)] ==
            IF i = 0 THEN <<>>
            ELSE F[i - 1] \o
                 (IF Len(df[i].days) = 0
                  THEN << [df[i] EXCEPT !.days = NaN] >>
                  ELSE [k \in 1..Len(df[i].days) |-> [df[i] EXCEPT !.days = df[i].days[k]]])
    IN F[Len(df)]

\* lines 205-210: the rows whose day's weekday name is in days_available
FilterWeekday(ex) ==
    SelectSeq(ex, LAMBDA row : Isin(StrftimeA(row.days), row.days_available))

\* Timestamp -> 'YYYY-MM-DD' (astype(str)); day 0 is 2025-01-06
MonthLengths == <<31, 28, 31, 30, 31, 30, 31, 31, 30, 31, 30, 31>>
TwoDigits(n) == IF n < 10 THEN "0" \o ToString(n) ELSE ToString(n)
RECURSIVE MonthDay(_, _)
MonthDay(m, n) ==
    IF n <= MonthLengths[m] THEN TwoDigits(m) \o "-" \o TwoDigits(n)
    ELSE MonthDay(m + 1, n - MonthLengths[m])
AsTypeStr(d) ==
    IF d + 6 <= 365 THEN "2025-" \o MonthDay(1, d + 6)
    ELSE "2026-" \o MonthDay(1, d + 6 - 365)

\* pd.to_datetime(x, format="%Y%m%d") of load_calendar: the text YYYYMMDD,
\* read as its fields <<YYYY, MM, DD>>, to the day number
RECURSIVE DayOfYear(_, _)
DayOfYear(m, n) == IF m = 1 THEN n ELSE MonthLengths[m - 1] + DayOfYear(m - 1, n)
ToDatetime(x) == (x[1] - 2025) * 365 + DayOfYear(x[2], x[3]) - 6

\* lines 187-212, the else branch
DatesOfTrips(trips, cal, lt) ==
    LET df == DatesForTrips(trips, cal, lt)
        ex == Explode(df)
    IN \* line 202: apply(axis=1) on a frame without rows gives a DataFrame, and
       \* setting it as the single column 'days' raises
       IF df = <<>> THEN [raised |-> "ValueError", value |-> <<>>]
       \* line 207: row.days is the float NaN, which has no strftime, when every
       \* days is NaN; next to Timestamps the column is datetime64 and holds
       \* NaT, whose strftime raises
       ELSE IF \A i \in DOMAIN ex : ex[i].days = NaN
            THEN [raised |-> "AttributeError", value |-> <<>>]
       ELSE IF \E i \in DOMAIN ex : ex[i].days = NaN
            THEN [raised |-> "ValueError", value |-> <<>>]
       ELSE [raised |-> "none",
             value |-> DropDuplicates([i \in DOMAIN FilterWeekday(ex)
                                         |-> AsTypeStr(FilterWeekday(ex)[i].days)])]

\* as get_trips_if_exists, without the early return of lines 184-185
get_trips_if_exists_NoEarlyReturn(trips, st, cal, s, f, d) ==
    DatesOfTrips(trips, cal, TopologyFilter(st, s, f))

\* as get_trips_if_exists, keeping of the dates only the date asked for
get_trips_if_exists_OnDate(trips, st, cal, s, f, d) ==
    IF TopologyFilter(st, s, f) = <<>> THEN [raised |-> "none", value |-> <<>>]
    ELSE [raised |-> DatesOfTrips(trips, cal, TopologyFilter(st, s, f)).raised,
          value |-> SelectSeq(DatesOfTrips(trips, cal, TopologyFilter(st, s, f)).value,
                              LAMBDA x : x = AsTypeStr(d))]

get_trips_if_exists(trips, st, cal, s, f, d) ==
    IF TopologyFilter(st, s, f) = <<>> THEN [raised |-> "none", value |-> <<>>]
    ELSE DatesOfTrips(trips, cal, TopologyFilter(st, s, f))

\* the functions that execute their trips/calendar merge (lines 132-139, 190-197)
Joined(lt) ==
    {"search_trips_availables"} \cup
    (IF lt = <<>> THEN {} ELSE {"get_trips_if_exists"})

(***************************************************************************)
(* One run of the page script, lines 50-62 of 2_Search_Trips.py.  Line 51  *)
(* (get_trip_shapes) and lines 65-70 draw the map from                     *)
(* list_trips_available and set none of the variables below.               *)
(***************************************************************************)
Message(lta, lda) ==
    IF lda = <<>> THEN "no_trips_for_stops"
    ELSE IF lda # <<>> /\ lta # <<>> THEN "trips_available"
    ELSE IF lda # <<>> THEN "other_dates"
    ELSE "none"

Script(stops, trips, st, cal, s, f, d) ==
    LET lta == search_trips_availables(trips, st, cal, s, f, d)
        res == get_trips_if_exists(trips, st, cal, s, f, d)
    IN [list_trips |-> TopologyFilter(st, s, f),
        joined |-> Joined(TopologyFilter(st, s, f)),
        list_trips_available |-> lta,
        list_dates_available |-> res.value,
        error |-> res.raised,
        message |-> IF res.raised = "none" THEN Message(lta, res.value) ELSE "none"]

(***************************************************************************)
(* The tables the page loads (load_data, lines 11-21).                     *)
(***************************************************************************)
StopTimeRows ==
    [trip_id : Range(TripIds), stop_id : Range(StopIds), stop_sequence : StopSequences]

\* rows in feed order: by trip, then by stop_sequence, a stop_sequence once per trip
KeyLess(r1, r2) ==
    \/ IndexOf(TripIds, r1.trip_id) < IndexOf(TripIds, r2.trip_id)
    \/ r1.trip_id = r2.trip_id /\ r1.stop_sequence < r2.stop_sequence

StopTimesTables ==
    {st \in UNION {[1..n -> StopTimeRows] : n \in 0..MaxStopTimes} :
        \A i \in 1..(Len(st) - 1) : KeyLess(st[i], st[i + 1])}

CalendarRow(sid, days, a, b) ==
    [service_id |-> sid,
     monday |-> "monday" \in days, tuesday |-> "tuesday" \in days,
     wednesday |-> "wednesday" \in days, thursday |-> "thursday" \in days,
     friday |-> "friday" \in days, saturday |-> "saturday" \in days,
     sunday |-> "sunday" \in days,
     start_date |-> a, end_date |-> b]

DayPatterns == {{}, {"monday"}, Range(weekdays)}

CalendarRows ==
    {CalendarRow(sid, days, a, b) :
        sid \in Range(ServiceIds), days \in DayPatterns, a \in Dates, b \in Dates}

\* one row per service_id, in ServiceIds order
CalendarTables ==
    {cal \in UNION {[1..n -> CalendarRows] : n \in 0..Len(ServiceIds)} :
        \A i \in 1..(Len(cal) - 1) :
            IndexOf(ServiceIds, cal[i].service_id) < IndexOf(ServiceIds, cal[i + 1].service_id)}

\* in these feeds every trip has the first shape and no shape has points
TripRows == [trip_id : Range(TripIds), service_id : Range(ServiceIds), shape_id : {ShapeIds[1]}]

\* a stops row: coordinates in hundredths of a degree
StopRow(id) ==
    [stop_id |-> id, stop_code |-> "code " \o id, stop_name |-> "Stop " \o id,
     stop_lat |-> 5330 + IndexOf(StopIds, id), stop_lon |-> -(600 + IndexOf(StopIds, id))]
StopsTable(ids) == [i \in DOMAIN ids |-> StopRow(ids[i])]

TripLess(r1, r2) ==
    \/ IndexOf(TripIds, r1.trip_id) < IndexOf(TripIds, r2.trip_id)
    \/ /\ r1.trip_id = r2.trip_id
       /\ IndexOf(ServiceIds, r1.service_id) < IndexOf(ServiceIds, r2.service_id)

TripsTables ==
    {tr \in UNION {[1..n -> TripRows] : n \in 0..MaxTrips} :
        \A i \in 1..(Len(tr) - 1) : TripLess(tr[i], tr[i + 1])}

\* a feed whose stop_times vary, every trip on one daily service
TopologyFeed ==
    /\ df_stops = StopsTable(StopIds)
    /\ df_shapes = <<>>
    /\ df_stop_times \in StopTimesTables
    /\ df_trips = [i \in DOMAIN TripIds |->
                     [trip_id |-> TripIds[i], service_id |-> ServiceIds[1],
                      shape_id |-> ShapeIds[1]]]
    /\ df_calendar = << CalendarRow(ServiceIds[1], Range(weekdays), DefaultDate, DefaultDate + MaxDate) >>

\* a feed whose trips and calendar vary, every trip running A then B
CalendarFeed ==
    /\ df_stops = StopsTable(SubSeq(StopIds, 1, 2))
    /\ df_shapes = <<>>
    /\ df_stop_times =
         [i \in 1..(2 * Len(TripIds)) |->
            [trip_id |-> TripIds[(i + 1) \div 2],
             stop_id |-> StopIds[2 - (i % 2)],
             stop_sequence |-> 2 - (i % 2)]]
    /\ df_trips \in TripsTables
    /\ df_calendar \in CalendarTables

\* no geometry function has been called
NotCalled ==
    /\ call = "none"
    /\ trip_id_list = None
    /\ returned = [raised |-> "none", value |-> <<>>]
    /\ remembered = [call |-> "none"]

\* nothing has been loaded or downloaded
IngestIdle ==
    /\ disk = [file |-> [state |-> "missing"], extract_dir |-> FALSE, timestamp |-> "absent"]
    /\ loaded = [loader |-> "none", raised |-> "none", columns |-> {}, rows |-> <<>>]
    /\ download = [pc |-> "idle"]
    /\ requests_made = <<>>
    /\ response = <<>>

\* the first run of the script: a selectbox starts at its first option, the
\* date_input at its default
FirstRun ==
    /\ start_stop = df_stops[1].stop_id
    /\ final_stop = df_stops[1].stop_id
    /\ date = DefaultDate
    /\ \E run \in {Script(df_stops, df_trips, df_stop_times, df_calendar,
                           start_stop, final_stop, date)} :
          /\ list_trips = run.list_trips
          /\ joined = run.joined
          /\ list_trips_available = run.list_trips_available
          /\ list_dates_available = run.list_dates_available
          /\ error = run.error
          /\ message = run.message

Init ==
    /\ TopologyFeed \/ CalendarFeed
    /\ FirstRun
    /\ NotCalled
    /\ IngestIdle

\* the script runs again, top to bottom, with the widgets' new values
Rerun(s, f, d) ==
    /\ start_stop' = s
    /\ final_stop' = f
    /\ date' = d
    /\ \E run \in {Script(df_stops, df_trips, df_stop_times, df_calendar, s, f, d)} :
          /\ list_trips' = run.list_trips
          /\ joined' = run.joined
          /\ list_trips_available' = run.list_trips_available
          /\ list_dates_available' = run.list_dates_available
          /\ error' = run.error
          /\ message' = run.message
    /\ UNCHANGED <<tables, geometry, remembered, ingest>>

SelectStartStop(s) ==
    /\ s # start_stop
    /\ Rerun(s, final_stop, date)

SelectFinalStop(f) ==
    /\ f # final_stop
    /\ Rerun(start_stop, f, date)

SelectDate(d) ==
    /\ d # date
    /\ Rerun(start_stop, final_stop, d)

Next ==
    \/ \E s \in Range(Column(df_stops, "stop_id")) : SelectStartStop(s)
    \/ \E f \in Range(Column(df_stops, "stop_id")) : SelectFinalStop(f)
    \/ \E d \in Dates : SelectDate(d)

Spec == Init /\ [][Next]_vars

(***************************************************************************)
(* The page over the feed of the calendar scenario: trip T1 runs A then B  *)
(* on service S1, which has only the monday flag and the range 20250106 to *)
(* 20250120; the date_input ranges over those days and its default.        *)
(***************************************************************************)
ScenarioStart == ToDatetime(<<2025, 1, 6>>)
ScenarioEnd == ToDatetime(<<2025, 1, 20>>)
ScenarioDates == {DefaultDate} \cup (ScenarioStart .. ScenarioEnd)

ScenarioFeed ==
    /\ df_stops = StopsTable(StopIds)
    /\ df_shapes = <<>>
    /\ df_stop_times = << [trip_id |-> "T1", stop_id |-> "A", stop_sequence |-> 1],
                          [trip_id |-> "T1", stop_id |-> "B", stop_sequence |-> 2] >>
    /\ df_trips = << [trip_id |-> "T1", service_id |-> "S1", shape_id |-> "SH1"] >>
    /\ df_calendar = << CalendarRow("S1", {"monday"}, ScenarioStart, ScenarioEnd) >>

InitScenario ==
    /\ ScenarioFeed
    /\ FirstRun
    /\ NotCalled
    /\ IngestIdle

NextScenario ==
    \/ \E s \in Range(Column(df_stops, "stop_id")) : SelectStartStop(s)
    \/ \E f \in Range(Column(df_stops, "stop_id")) : SelectFinalStop(f)
    \/ \E d \in ScenarioDates : SelectDate(d)

SpecScenario == InitScenario /\ [][NextScenario]_vars

(***************************************************************************)
(* Trip geometry: get_trip_shapes and get_trip_stops, lines 5-93 of        *)
(* data_processing.py.                                                     *)
(***************************************************************************)
MaxShapes == 3         \* rows of shapes

\* how an inner merge orders its rows depends on the pandas release: the left
\* rows in their order, or the rows grouped by join key in the order the keys
\* first appear on the left
MergeOrders == {"left", "key"}

RowsOfKey(df, on, k) == SelectSeq(df, LAMBDA r : r[on] = k)

\* each row of left with each row of right that has the same value of `on`
Pairs(left, right, on) ==
    LET F[i \in 0..Len(left)] ==
            IF i = 0 THEN <<>>
            ELSE F[i - 1] \o
                 [k \in 1..Len(RowsOfKey(right, on, left[i][on]))
                    |-> left[i] @@ RowsOfKey(right, on, left[i][on])[k]]
    IN F[Len(left)]

\* as MergeOn, the merge that groups by key keeping the first left row of a key
MergeOnKeyKeepsFirst(left, right, on, order) ==
    IF order = "left" THEN Pairs(left, right, on)
    ELSE LET keys == DropDuplicates(Column(left, on))
             G[n \in 0..Len(keys)] ==
                 IF n = 0 THEN <<>>
                 ELSE G[n - 1] \o Pairs(SubSeq(RowsOfKey(left, on, keys[n]), 1, 1), right, on)
         IN G[Len(keys)]

\* left.merge(right, on=on, how='inner')
MergeOn(left, right, on, order) ==
    IF order = "left" THEN Pairs(left, right, on)
    ELSE LET keys == DropDuplicates(Column(left, on))
             G[n \in 0..Len(keys)] ==
                 IF n = 0 THEN <<>>
                 ELSE G[n - 1] \o Pairs(RowsOfKey(left, on, keys[n]), right, on)
         IN G[Len(keys)]

\* the order of sort_values(by=['trip_id','shape_pt_sequence'])
ShapeLess(r1, r2) ==
    \/ IndexOf(TripIds, r1.trip_id) < IndexOf(TripIds, r2.trip_id)
    \/ /\ r1.trip_id = r2.trip_id
       /\ r1.shape_pt_sequence < r2.shape_pt_sequence

\* a sort by trip_id alone
SortByTripOnly(df) ==
    LET Position(i) ==
            Cardinality({j \in DOMAIN df :
                \/ IndexOf(TripIds, df[j].trip_id) < IndexOf(TripIds, df[i].trip_id)
                \/ df[j].trip_id = df[i].trip_id /\ j < i}) + 1
    IN [k \in DOMAIN df |-> df[CHOOSE i \in DOMAIN df : Position(i) = k]]

\* .sort_values(by=['trip_id','shape_pt_sequence']): rows of equal keys keep
\* their order
SortValues(df) ==
    LET Position(i) ==
            Cardinality({j \in DOMAIN df :
                \/ ShapeLess(df[j], df[i])
                \/ ~ShapeLess(df[i], df[j]) /\ j < i}) + 1
    IN [k \in DOMAIN df |-> df[CHOOSE i \in DOMAIN df : Position(i) = k]]

\* lines 29-50: the merged and sorted frame; with trip_id_list None every trip
TripShapeFrame(trips, shapes, arg, order) ==
    SortValues(MergeOn(IF arg.is_none THEN trips ELSE LocTrips(trips, arg.list),
                       shapes, "shape_id", order))

\* df_trip_shape[['shape_pt_lat','shape_pt_lon']].loc[trip_id == t].values.tolist()
LatLon(df, t) ==
    [i \in DOMAIN SelectSeq(df, LAMBDA r : r.trip_id = t) |->
        << SelectSeq(df, LAMBDA r : r.trip_id = t)[i].shape_pt_lat,
           SelectSeq(df, LAMBDA r : r.trip_id = t)[i].shape_pt_lon >>]

\* a dictionary that has a key only for the trips found in the frame
ShapeDictOfFrame(df, list) ==
    [t \in Range(list) \cap Range(Column(df, "trip_id")) |-> LatLon(df, t)]

\* lines 52-55: shape_dict, one key per element of trip_id_list
ShapeDict(df, list) == [t \in Range(list) |-> LatLon(df, t)]

\* get_trip_shapes: `for trip_id in trip_id_list` over None raises TypeError
get_trip_shapes(trips, shapes, arg, order) ==
    IF arg.is_none THEN [raised |-> "TypeError", value |-> <<>>]
    ELSE [raised |-> "none",
          value |-> ShapeDict(TripShapeFrame(trips, shapes, arg, order), arg.list)]

\* the final column selection of get_trip_stops (line 92)
TripStopsColumns(df) ==
    [i \in DOMAIN df |->
        [trip_id |-> df[i].trip_id, stop_id |-> df[i].stop_id,
         stop_code |-> df[i].stop_code, stop_name |-> df[i].stop_name,
         stop_sequence |-> df[i].stop_sequence,
         stop_lat |-> df[i].stop_lat, stop_lon |-> df[i].stop_lon]]

\* as get_trip_stops, without the selection of the requested trips
get_trip_stops_AllTrips(trips, st, stops, list, order) ==
    [raised |-> "none",
     value |-> TripStopsColumns(
                   MergeOn(MergeOn(trips, st, "trip_id", order), stops, "stop_id", order))]

\* get_trip_stops, lines 79-93: no sort follows the two merges
get_trip_stops(trips, st, stops, list, order) ==
    [raised |-> "none",
     value |-> TripStopsColumns(
                   MergeOn(MergeOn(LocTrips(trips, list), st, "trip_id", order),
                           stops, "stop_id", order))]

(***************************************************************************)
(* The tables and arguments the geometry functions are applied to.         *)
(***************************************************************************)
\* a trip id that no table holds
UnknownTrip == "T9"

\* argument lists: any ids, repeated or unknown, up to the number of trips
Lists == UNION {[1..n -> Range(TripIds) \cup {UnknownTrip}] : n \in 0..Len(TripIds)}

\* trips with a shape each, a trip_id at most once, in TripIds order
ShapedTripRows == [trip_id : Range(TripIds), service_id : {ServiceIds[1]}, shape_id : Range(ShapeIds)]
ShapedTrips ==
    {tr \in UNION {[1..n -> ShapedTripRows] : n \in 0..Len(TripIds)} :
        \A i \in 1..(Len(tr) - 1) :
            IndexOf(TripIds, tr[i].trip_id) < IndexOf(TripIds, tr[i + 1].trip_id)}

\* the points of a shape: latitude falls along the shape, longitude tells the
\* shapes apart (hundredths of a degree)
ShapeSequences == 1..3
ShapeRow(sh, q) ==
    [shape_id |-> sh, shape_pt_sequence |-> q,
     shape_pt_lat |-> 5340 - q, shape_pt_lon |-> -(620 + IndexOf(ShapeIds, sh))]
ShapeRows == {ShapeRow(sh, q) : sh \in Range(ShapeIds), q \in ShapeSequences}

\* shapes in any row order, a (shape_id, shape_pt_sequence) at most once
ShapesTables ==
    {sh \in UNION {[1..n -> ShapeRows] : n \in 0..MaxShapes} : NoRepeat(sh)}

\* stop_times in any row order, a (trip_id, stop_sequence) at most once; the
\* first trip has up to three stop_times at the first two stops, the others one
VisitRows ==
    {r \in StopTimeRows :
        /\ r.stop_id \in Range(SubSeq(StopIds, 1, 2))
        /\ r.trip_id = TripIds[1] \/ r.stop_sequence = 1}
StopTimesInAnyOrder ==
    {st \in UNION {[1..n -> VisitRows] : n \in 0..MaxStopTimes} :
        \A i, j \in DOMAIN st :
            (st[i].trip_id = st[j].trip_id /\ st[i].stop_sequence = st[j].stop_sequence)
                => i = j}

\* values of the variables of the Search Trips page while it is not run
SearchIdle ==
    /\ start_stop = "" /\ final_stop = "" /\ date = DefaultDate
    /\ list_trips = <<>> /\ joined = {}
    /\ list_trips_available = <<>> /\ list_dates_available = <<>>
    /\ error = "none" /\ message = "none"

\* a feed whose trips and shapes vary
ShapesFeed ==
    /\ df_trips \in ShapedTrips
    /\ df_shapes \in ShapesTables
    /\ df_stops = <<>>
    /\ df_stop_times = <<>>
    /\ df_calendar = <<>>

\* a feed whose stop_times vary: every trip or only the first in trips, the
\* first two stops in either order or only the first in stops
StopsFeed ==
    /\ \E n \in {1, Len(TripIds)} :
          df_trips = [i \in 1..n |->
                        [trip_id |-> TripIds[i], service_id |-> ServiceIds[1],
                         shape_id |-> ShapeIds[1]]]
    /\ df_shapes = <<>>
    /\ df_stops \in {StopsTable(<<"A", "B">>), StopsTable(<<"B", "A">>), StopsTable(<<"A">>)}
    /\ df_stop_times \in StopTimesInAnyOrder
    /\ df_calendar = <<>>

\* a call get_trip_shapes(df_trips, df_shapes, arg)
CallGetTripShapes(arg) ==
    /\ call' = "get_trip_shapes"
    /\ trip_id_list' = arg
    /\ \E order \in MergeOrders :
          returned' = get_trip_shapes(df_trips, df_shapes, arg, order)
    /\ UNCHANGED <<tables, search, remembered, ingest>>

\* a call get_trip_stops(df_trips, df_stop_times, df_stops, list)
CallGetTripStops(list) ==
    /\ call' = "get_trip_stops"
    /\ trip_id_list' = Some(list)
    /\ \E order \in MergeOrders :
          returned' = get_trip_stops(df_trips, df_stop_times, df_stops, list, order)
    /\ UNCHANGED <<tables, search, remembered, ingest>>

InitShapes == ShapesFeed /\ SearchIdle /\ NotCalled /\ IngestIdle

NextShapes == \E arg \in {None} \cup {Some(list) : list \in Lists} : CallGetTripShapes(arg)

SpecShapes == InitShapes /\ [][NextShapes]_vars

InitStops == StopsFeed /\ SearchIdle /\ NotCalled /\ IngestIdle

NextStops == \E list \in Lists : CallGetTripStops(list)

SpecStops == InitStops /\ [][NextStops]_vars

(***************************************************************************)
(* The functions of data_processing.py called one after another, in any    *)
(* order and with any arguments, over one feed.                            *)
(***************************************************************************)
\* trip T1 visits A, B and A again, trip T2 visits B then A; service S1 runs
\* every day, service S2 on Mondays, its range in order or inverted
CallsFeed ==
    /\ df_stops = StopsTable(<<"A", "B">>)
    /\ df_stop_times =
         << [trip_id |-> "T1", stop_id |-> "A", stop_sequence |-> 1],
            [trip_id |-> "T1", stop_id |-> "B", stop_sequence |-> 2],
            [trip_id |-> "T1", stop_id |-> "A", stop_sequence |-> 3],
            [trip_id |-> "T2", stop_id |-> "B", stop_sequence |-> 1],
            [trip_id |-> "T2", stop_id |-> "A", stop_sequence |-> 2] >>
    /\ df_trips = << [trip_id |-> "T1", service_id |-> "S1", shape_id |-> "SH1"],
                     [trip_id |-> "T2", service_id |-> "S2", shape_id |-> "SH2"] >>
    /\ df_shapes = << ShapeRow("SH1", 2), ShapeRow("SH1", 1), ShapeRow("SH2", 1) >>
    /\ \E ab \in {<<DefaultDate, DefaultDate + MaxDate>>, <<DefaultDate + MaxDate, DefaultDate>>} :
          df_calendar = << CalendarRow("S1", Range(weekdays), DefaultDate, DefaultDate + MaxDate),
                           CalendarRow("S2", {"monday"}, ab[1], ab[2]) >>

\* the lists the Trip Route page passes: one trip id, or none
ShortLists == {list \in Lists : Len(list) <= 1}

\* the arguments of the call in `call`
ArgsOf ==
    IF call \in {"get_trip_shapes", "get_trip_stops"} THEN <<trip_id_list>>
    ELSE <<start_stop, final_stop, date>>

\* a call search_trips_availables(df_trips, df_stop_times, df_calendar, s, f, d)
CallSearchTripsAvailables(s, f, d) ==
    /\ call' = "search_trips_availables"
    /\ start_stop' = s /\ final_stop' = f /\ date' = d
    /\ returned' = [raised |-> "none",
                    value |-> search_trips_availables(df_trips, df_stop_times, df_calendar,
                                                      s, f, d)]
    /\ trip_id_list' = None
    /\ UNCHANGED <<tables, list_trips, joined, list_trips_available, list_dates_available,
                   error, message, remembered, ingest>>

\* as CallGetTripsIfExists, the columns days and days_available assigned to
\* the calendar table itself
CallGetTripsIfExistsInPlace(s, f, d) ==
    /\ call' = "get_trips_if_exists"
    /\ start_stop' = s /\ final_stop' = f /\ date' = d
    /\ returned' = get_trips_if_exists(df_trips, df_stop_times, df_calendar, s, f, d)
    /\ df_calendar' = [i \in DOMAIN df_calendar |->
                          [days_available |-> DaysAvailable(df_calendar[i]),
                           days |-> DateRange(df_calendar[i].start_date,
                                              df_calendar[i].end_date)] @@ df_calendar[i]]
    /\ trip_id_list' = None
    /\ UNCHANGED <<df_stops, df_trips, df_shapes, df_stop_times, list_trips, joined,
                   list_trips_available, list_dates_available, error, message,
                   remembered, ingest>>

\* a call get_trips_if_exists(df_trips, df_stop_times, df_calendar, s, f, d)
CallGetTripsIfExists(s, f, d) ==
    /\ call' = "get_trips_if_exists"
    /\ start_stop' = s /\ final_stop' = f /\ date' = d
    /\ returned' = get_trips_if_exists(df_trips, df_stop_times, df_calendar, s, f, d)
    /\ trip_id_list' = None
    /\ UNCHANGED <<tables, list_trips, joined, list_trips_available, list_dates_available,
                   error, message, remembered, ingest>>

\* the observer keeps the last call, its arguments and its result
Remember ==
    /\ call # "none"
    /\ remembered' = [call |-> call, args |-> ArgsOf, returned |-> returned]
    /\ UNCHANGED <<tables, search, geometry, ingest>>

InitCalls == CallsFeed /\ SearchIdle /\ NotCalled /\ IngestIdle

NextCalls ==
    \/ \E s, f \in Range(Column(df_stops, "stop_id")), d \in Dates :
          CallSearchTripsAvailables(s, f, d)
    \/ \E s, f \in Range(Column(df_stops, "stop_id")), d \in Dates :
          CallGetTripsIfExists(s, f, d)
    \/ \E arg \in {None} \cup {Some(list) : list \in ShortLists} : CallGetTripShapes(arg)
    \/ \E list \in ShortLists : CallGetTripStops(list)
    \/ Remember

SpecCalls == InitCalls /\ [][NextCalls]_vars

(***************************************************************************)
(* Loading calendar.txt: generate_df_from_txt (src/data_utils.py, lines    *)
(* 43-77) and load_calendar (data_loader.py, lines 56-85), and the calendar *)
(* functions applied to the loaded frame.  A file is missing, empty (no    *)
(* header line), or text: a header line and the rows after it.             *)
(***************************************************************************)
CalendarColumns == Range(weekdays) \cup {"service_id", "start_date", "end_date"}

\* pd.read_csv(filename): FileNotFoundError for a missing file, EmptyDataError
\* for a file with no header line, else the columns of the header and the rows
ReadCsv(file) ==
    IF file.state = "missing"
    THEN [raised |-> "FileNotFoundError", columns |-> {}, rows |-> <<>>]
    ELSE IF file.state = "empty"
    THEN [raised |-> "EmptyDataError", columns |-> {}, rows |-> <<>>]
    ELSE [raised |-> "none", columns |-> CalendarColumns, rows |-> file.rows]

\* generate_df_from_txt: FileNotFoundError is raised again, EmptyDataError is
\* answered with pd.DataFrame(), a frame without columns
generate_df_from_txt(file) ==
    IF ReadCsv(file).raised = "EmptyDataError"
    THEN [raised |-> "none", columns |-> {}, rows |-> <<>>]
    ELSE ReadCsv(file)

\* load_calendar: read_csv and nothing else
load_calendar(file) == ReadCsv(file)

Loaders == {"generate_df_from_txt", "load_calendar"}

\* search_trips_availables with the loaded frame as df_calendar: the merge on
\* service_id (lines 134-139) raises KeyError when the frame lacks the column
SearchOnLoaded(frame, s, f, d) ==
    IF "service_id" \notin frame.columns THEN [raised |-> "KeyError", value |-> <<>>]
    ELSE [raised |-> "none",
          value |-> search_trips_availables(df_trips, df_stop_times, frame.rows, s, f, d)]

\* get_trips_if_exists with the loaded frame as df_calendar: the early return
\* comes before the merge (lines 184-197)
GetTripsOnLoaded(frame, s, f, d) ==
    IF TopologyFilter(df_stop_times, s, f) = <<>> THEN [raised |-> "none", value |-> <<>>]
    ELSE IF "service_id" \notin frame.columns THEN [raised |-> "KeyError", value |-> <<>>]
    ELSE get_trips_if_exists(df_trips, df_stop_times, frame.rows, s, f, d)

\* the calendar.txt files: missing, empty, a header only, or a header and the
\* row of service S1
CalendarFiles ==
    {[state |-> "missing"], [state |-> "empty"]} \cup
    {[state |-> "text", rows |-> rows] :
        rows \in {<<>>} \cup {<<CalendarRow(ServiceIds[1], days, DefaultDate, DefaultDate + MaxDate)>> :
                                 days \in DayPatterns}}

LoaderFeed ==
    /\ df_stops = StopsTable(StopIds)
    /\ df_stop_times = << [trip_id |-> "T1", stop_id |-> "A", stop_sequence |-> 1],
                          [trip_id |-> "T1", stop_id |-> "B", stop_sequence |-> 2] >>
    /\ df_trips = << [trip_id |-> "T1", service_id |-> "S1", shape_id |-> "SH1"] >>
    /\ df_shapes = <<>>
    /\ df_calendar = <<>>
    /\ disk \in [file : CalendarFiles, extract_dir : {FALSE}, timestamp : {"absent"}]
    /\ loaded = [loader |-> "none", raised |-> "none", columns |-> {}, rows |-> <<>>]
    /\ download = [pc |-> "idle"]
    /\ requests_made = <<>>
    /\ response = <<>>

\* the loader reads calendar.txt
LoadCalendar(loader) ==
    /\ loaded' = [loader |-> loader] @@
                 (IF loader = "generate_df_from_txt" THEN generate_df_from_txt(disk.file)
                  ELSE load_calendar(disk.file))
    /\ UNCHANGED <<tables, search, geometry, remembered, disk, download, requests_made,
                   response>>

\* a load that raised ends the program; after a load that returned, the page
\* calls the two calendar functions with the loaded frame
QueryLoaded(s, f, d) ==
    /\ loaded.loader # "none" /\ loaded.raised = "none"
    /\ \E fn \in {"search_trips_availables", "get_trips_if_exists"} :
          /\ call' = fn
          /\ returned' = IF fn = "search_trips_availables" THEN SearchOnLoaded(loaded, s, f, d)
                         ELSE GetTripsOnLoaded(loaded, s, f, d)
    /\ start_stop' = s /\ final_stop' = f /\ date' = d
    /\ UNCHANGED <<tables, list_trips, joined, list_trips_available, list_dates_available,
                   error, message, trip_id_list, remembered, ingest>>

InitLoader == LoaderFeed /\ SearchIdle /\ NotCalled

NextLoader ==
    \/ \E loader \in Loaders : LoadCalendar(loader)
    \/ \E s, f \in Range(Column(df_stops, "stop_id")), d \in Dates : QueryLoaded(s, f, d)

SpecLoader == InitLoader /\ [][NextLoader]_vars

(***************************************************************************)
(* download_gtfs_feed, lines 143-211 of src/data_utils.py, statement by    *)
(* statement.  A JSON value is null, a string or an object; a Python dict  *)
(* is a function from its keys.                                            *)
(***************************************************************************)
Null == [t |-> "null"]
Str(x) == [t |-> "str", s |-> x]
Obj(d) == [t |-> "obj", o |-> d]

\* Python truth of a value: None, "" and {} are false
Truthy(v) ==
    \/ v.t = "str" /\ v.s # ""
    \/ v.t = "obj" /\ DOMAIN v.o # {}

\* dict.get(key, default)
Get(d, key, default) == IF key \in DOMAIN d THEN d[key] ELSE default

\* the dict of the keys of f that have a value
Absent == [t |-> "absent"]
Dict(f) == [k \in {x \in DOMAIN f : f[x] # Absent} |-> f[k]]

HostedUrl == "https://files.example/hosted.zip"
ProducerUrl == "https://producer.example/gtfs.zip"
MobilityUrl(feed_id) == "https://api.mobilitydatabase.org/v1/gtfs_feeds/" \o feed_id
DownloadedAt == "2025-11-30T04:05:06Z"
Now == "datetime.now().isoformat()"

\* what the metadata request can answer
LatestDatasets ==
    {Absent, Null} \cup
    {Obj(Dict([hosted_url |-> h, downloaded_at |-> a])) :
        h \in {Absent, Str(""), Str(HostedUrl)},
        a \in {Absent, Null, Str(""), Str(DownloadedAt)}}
SourceInfos ==
    {Absent, Null} \cup
    {Obj(Dict([producer_url |-> u])) : u \in {Absent, Str(""), Str(ProducerUrl)}}
FeedDatas ==
    {Dict([latest_dataset |-> l, source_info |-> i]) : l \in LatestDatasets, i \in SourceInfos}

\* feed_data.get(outer, {}).get(inner): AttributeError when the outer value is
\* not a dict, None when a key is missing
GetGet(feed_data, outer, inner) ==
    LET v == Get(feed_data, outer, Obj(<<>>))
    IN IF v.t # "obj" THEN [raised |-> "AttributeError", value |-> Null]
       ELSE [raised |-> "none", value |-> Get(v.o, inner, Null)]

\* lines 178-184: a or b evaluates b only when a is false
SelectUrl(feed_data) ==
    LET hosted == GetGet(feed_data, "latest_dataset", "hosted_url")
        producer == GetGet(feed_data, "source_info", "producer_url")
    IN IF hosted.raised # "none" THEN hosted
       ELSE IF Truthy(hosted.value) THEN hosted
       ELSE IF producer.raised # "none" THEN producer
       ELSE IF ~Truthy(producer.value)
            THEN [raised |-> "ValueError", value |-> Null]
       ELSE producer

\* lines 198-199; latest_dataset is a dict or missing here, line 179 has read it
TimestampToSave(feed_data) ==
    LET downloaded_at == GetGet(feed_data, "latest_dataset", "downloaded_at").value
    IN IF Truthy(downloaded_at) THEN downloaded_at.s ELSE Now

Raise(exception) == download' = [download EXCEPT !.pc = "raised", !.raised = exception]
Goto(pc) == download' = [download EXCEPT !.pc = pc]

\* lines 159-163
Validate ==
    /\ download.pc = "validate"
    /\ IF download.access_token = "" \/ download.feed_id = ""
       THEN Raise("ValueError")
       ELSE Goto("metadata")
    /\ UNCHANGED <<tables, search, geometry, remembered, disk, loaded, requests_made, response>>

\* lines 172-176: the API answers with an error status or with the feed's data
RequestMetadata ==
    /\ download.pc = "metadata"
    /\ requests_made' = Append(requests_made, MobilityUrl(download.feed_id))
    /\ \/ Raise("HTTPError")
       \/ \E feed_data \in FeedDatas :
             download' = [download EXCEPT !.pc = "select", !.feed_data = feed_data]
    /\ UNCHANGED <<tables, search, geometry, remembered, disk, loaded, response>>

\* lines 178-184
ChooseDownloadUrl ==
    /\ download.pc = "select"
    /\ IF SelectUrl(download.feed_data).raised # "none"
       THEN Raise(SelectUrl(download.feed_data).raised)
       ELSE download' = [download EXCEPT !.pc = "download",
                                         !.download_url = SelectUrl(download.feed_data).value.s]
    /\ UNCHANGED <<tables, search, geometry, remembered, disk, loaded, requests_made, response>>

\* lines 190-191: the file server answers with an error status or with bytes:
\* none, bytes that are no zip archive, or a zip archive
RequestZip ==
    /\ download.pc = "download"
    /\ requests_made' = Append(requests_made, download.download_url)
    /\ \/ Raise("HTTPError")
       \/ \E content \in {"", "not a zip", "zip"} :
             download' = [download EXCEPT !.pc = "mkdir", !.content = content]
    /\ UNCHANGED <<tables, search, geometry, remembered, disk, loaded, response>>

\* as Mkdir, timestamp.txt written with the directory
MkdirAndStamp ==
    /\ download.pc = "mkdir"
    /\ disk' = [disk EXCEPT !.extract_dir = TRUE,
                            !.timestamp = TimestampToSave(download.feed_data)]
    /\ Goto("extract")
    /\ UNCHANGED <<tables, search, geometry, remembered, loaded, requests_made, response>>

\* lines 193-194
Mkdir ==
    /\ download.pc = "mkdir"
    /\ disk' = [disk EXCEPT !.extract_dir = TRUE]
    /\ Goto("extract")
    /\ UNCHANGED <<tables, search, geometry, remembered, loaded, requests_made, response>>

\* line 196, extract_zip_from_bytes (lines 116-141)
Extract ==
    /\ download.pc = "extract"
    /\ IF download.content = "" THEN Raise("ValueError")
       ELSE IF download.content # "zip" THEN Raise("BadZipFile")
       ELSE download' = [download EXCEPT !.pc = "timestamp", !.extracted = TRUE]
    /\ UNCHANGED <<tables, search, geometry, remembered, disk, loaded, requests_made, response>>

\* lines 198-211
WriteTimestamp ==
    /\ download.pc = "timestamp"
    /\ disk' = [disk EXCEPT !.timestamp = TimestampToSave(download.feed_data)]
    /\ Goto("returned")
    /\ UNCHANGED <<tables, search, geometry, remembered, loaded, requests_made, response>>

\* timestamp.txt of an earlier download, or none
OldTimestamp == "2025-11-01T00:00:00Z"

\* a call download_gtfs_feed(access_token, feed_id)
InitDownload ==
    /\ df_stops = <<>> /\ df_trips = <<>> /\ df_shapes = <<>>
    /\ df_stop_times = <<>> /\ df_calendar = <<>>
    /\ SearchIdle
    /\ NotCalled
    /\ \E old \in {"absent", OldTimestamp}, dir \in BOOLEAN :
          /\ disk = [file |-> [state |-> "missing"], extract_dir |-> dir, timestamp |-> old]
          /\ \E access_token \in {"", "token"}, feed_id \in {"", "mdb-2364"} :
                download = [pc |-> "validate", access_token |-> access_token,
                            feed_id |-> feed_id, feed_data |-> <<>>, download_url |-> "",
                            content |-> "", extracted |-> FALSE, raised |-> "none",
                            dir_before |-> dir, timestamp_before |-> old]
    /\ loaded = [loader |-> "none", raised |-> "none", columns |-> {}, rows |-> <<>>]
    /\ requests_made = <<>>
    /\ response = <<>>

NextDownload ==
    \/ Validate
    \/ RequestMetadata
    \/ ChooseDownloadUrl
    \/ RequestZip
    \/ Mkdir
    \/ Extract
    \/ WriteTimestamp

SpecDownload == InitDownload /\ [][NextDownload]_vars

(***************************************************************************)
(* get_df_from_live_data, lines 247-288 of src/data_utils.py.  The         *)
(* response of the live API is None, a list, or a dict given as the        *)
(* sequence of its items in insertion order.                               *)
(***************************************************************************)
MaxArrivals == 2

Arrivals == {[route |-> "39A", due_in |-> 4], [route |-> "145", due_in |-> 11]}

ArrivalLists == UNION {[1..n -> Arrivals] : n \in 0..MaxArrivals}

\* a stop's entry: a dict with the key 'arrivals' or without it
EntryOf(has_arrivals, arrivals) ==
    [k \in IF has_arrivals THEN {"arrivals"} ELSE {} |-> arrivals]

Entries == {EntryOf(FALSE, <<>>)} \cup {EntryOf(TRUE, a) : a \in ArrivalLists}

LiveStops == <<"8220DB000002", "8220DB000004">>

Responses ==
    {[t |-> "None", items |-> <<>>], [t |-> "list", items |-> <<>>]}
    \cup {[t |-> "list", items |-> <<a>>] : a \in Arrivals}
    \cup UNION {{[t |-> "dict",
                   items |-> [i \in 1..n |-> [stop_id |-> LiveStops[i], entry |-> e[i]]]] :
                     e \in [1..n -> Entries]} : n \in 0..Len(LiveStops)}

\* the rows pd.DataFrame(arrivals) gets at lines 278-279
TaggedRows(arrivals, stop_id) ==
    [i \in 1..Len(arrivals) |->
        [route |-> arrivals[i].route, due_in |-> arrivals[i].due_in, stop_id |-> stop_id]]

\* lines 272-286
RECURSIVE AllRows(_)
AllRows(items) ==
    IF items = <<>> THEN <<>>
    ELSE LET arrivals == Get(Head(items).entry, "arrivals", <<>>)
         IN (IF arrivals # <<>> THEN TaggedRows(arrivals, Head(items).stop_id) ELSE <<>>)
            \o AllRows(Tail(items))

get_df_from_live_data(resp) ==
    IF resp.items = <<>> THEN [raised |-> "ValueError", value |-> <<>>]
    ELSE IF resp.t # "dict" THEN [raised |-> "ValueError", value |-> <<>>]
    ELSE [raised |-> "none", value |-> AllRows(resp.items)]

CallGetDfFromLiveData ==
    /\ call = "none"
    /\ call' = "get_df_from_live_data"
    /\ returned' = get_df_from_live_data(response)
    /\ UNCHANGED <<tables, search, trip_id_list, remembered, ingest>>

InitLive ==
    /\ df_stops = <<>> /\ df_trips = <<>> /\ df_shapes = <<>>
    /\ df_stop_times = <<>> /\ df_calendar = <<>>
    /\ SearchIdle
    /\ NotCalled
    /\ disk = [file |-> [state |-> "missing"], extract_dir |-> FALSE, timestamp |-> "absent"]
    /\ loaded = [loader |-> "none", raised |-> "none", columns |-> {}, rows |-> <<>>]
    /\ download = [pc |-> "idle"]
    /\ requests_made = <<>>
    /\ response \in Responses

NextLive == CallGetDfFromLiveData

SpecLive == InitLive /\ [][NextLive]_vars

(***************************************************************************)
(* Vocabulary of the properties: the stop_times relation read as a set.    *)
(***************************************************************************)
StopTimeRowsOf(T) == {r \in Range(df_stop_times) : r.trip_id = T}
Visits(T, x) == {r \in StopTimeRowsOf(T) : r.stop_id = x}
\* the rows of T at either selected stop
Candidates(T) == Visits(T, start_stop) \cup Visits(T, final_stop)
\* the candidate rows of T that come before row r
Earlier(T, r) == {q \in Candidates(T) : q.stop_sequence < r.stop_sequence}

(***************************************************************************)
(* C1: for a != b, a trip with a row at a and a later row at b, and no     *)
(* other row at a or b between the two, is in the topology filter's list   *)
(* for (a, b), also when it visits a or b more often before or after.      *)
(***************************************************************************)
C1_VisitInOrderIsListed ==
    start_stop # final_stop =>
        \A T \in Range(TripIds) :
            (\E ra \in Visits(T, start_stop), rb \in Visits(T, final_stop) :
                /\ ra.stop_sequence < rb.stop_sequence
                /\ ~\E r \in Candidates(T) :
                        /\ ra.stop_sequence < r.stop_sequence
                        /\ r.stop_sequence < rb.stop_sequence)
            => Isin(T, list_trips)

(***************************************************************************)
(* C2: every listed trip has a row at start_stop and a row at final_stop,  *)
(* some start_stop row having a strictly smaller stop_sequence than some   *)
(* final_stop row.                                                         *)
(***************************************************************************)
C2_ListedVisitsStartThenFinal ==
    \A T \in Range(list_trips) :
        \E ra \in Visits(T, start_stop), rb \in Visits(T, final_stop) :
            ra.stop_sequence < rb.stop_sequence

(***************************************************************************)
(* C3: with start_stop = final_stop the topology filter's list is empty.   *)
(***************************************************************************)
C3_SameStopListsNothing ==
    start_stop = final_stop => list_trips = <<>>

(***************************************************************************)
(* C4: a trip is listed iff, among its rows at start_stop or final_stop    *)
(* taken by ascending stop_sequence, there is a second one and it is at    *)
(* final_stop; the third and later such rows change nothing.               *)
(***************************************************************************)
\* the table without the rows that are third or later among their trip's candidates
WithoutLaterVisits ==
    SelectSeq(df_stop_times,
              LAMBDA r : ~(r \in Candidates(r.trip_id)
                           /\ Cardinality(Earlier(r.trip_id, r)) >= 2))

C4_SecondCandidateDecides ==
    /\ \A T \in Range(TripIds) :
          Isin(T, list_trips) <=>
              \E r \in Candidates(T) :
                  Cardinality(Earlier(T, r)) = 1 /\ r.stop_id = final_stop
    /\ Range(list_trips) = Range(TopologyFilter(WithoutLaterVisits, start_stop, final_stop))

\* a listed trip with three rows at the two stops
C4_Witness ==
    /\ start_stop # final_stop
    /\ \E T \in Range(list_trips) : Cardinality(Candidates(T)) >= 3

(***************************************************************************)
(* C5: with T1 = (1,A), (2,B), (3,C) the list for (A, C) holds T1 and the  *)
(* list for (C, A) does not; a trip visiting a and b once each is listed   *)
(* for (a, b) iff a comes first, and never for both (a, b) and (b, a).     *)
(***************************************************************************)
ScenarioT1 ==
    << [trip_id |-> "T1", stop_id |-> "A", stop_sequence |-> 1],
       [trip_id |-> "T1", stop_id |-> "B", stop_sequence |-> 2],
       [trip_id |-> "T1", stop_id |-> "C", stop_sequence |-> 3] >>

C5_DirectionSensitive ==
    /\ df_stop_times = ScenarioT1 /\ start_stop = "A" /\ final_stop = "C"
          => Isin("T1", list_trips)
    /\ df_stop_times = ScenarioT1 /\ start_stop = "C" /\ final_stop = "A"
          => ~Isin("T1", list_trips)
    /\ \A T \in Range(TripIds) :
          Cardinality(Visits(T, start_stop)) = 1 /\ Cardinality(Visits(T, final_stop)) = 1
          => /\ Isin(T, list_trips) <=>
                    \E ra \in Visits(T, start_stop), rb \in Visits(T, final_stop) :
                        ra.stop_sequence < rb.stop_sequence
             /\ ~(Isin(T, list_trips)
                  /\ Isin(T, TopologyFilter(df_stop_times, final_stop, start_stop)))

C5_Witness ==
    /\ df_stop_times = ScenarioT1 /\ start_stop = "A" /\ final_stop = "C"
    /\ Isin("T1", list_trips)

(***************************************************************************)
(* Vocabulary of the calendar properties.                                  *)
(***************************************************************************)
StopsInStopTimes == {r.stop_id : r \in Range(df_stop_times)}
TripRowsOf(t) == {r \in Range(df_trips) : r.trip_id = t}
\* the calendar rows of the services backing trip t
ServicesOf(t) ==
    {c \in Range(df_calendar) : \E r \in TripRowsOf(t) : r.service_id = c.service_id}
\* Monday -> monday ... Sunday -> sunday; 2025-12-01 is a Monday
WeekdayFlag(d) ==
    CASE (d - DefaultDate) % 7 = 0 -> "monday"
      [] (d - DefaultDate) % 7 = 1 -> "tuesday"
      [] (d - DefaultDate) % 7 = 2 -> "wednesday"
      [] (d - DefaultDate) % 7 = 3 -> "thursday"
      [] (d - DefaultDate) % 7 = 4 -> "friday"
      [] (d - DefaultDate) % 7 = 5 -> "saturday"
      [] (d - DefaultDate) % 7 = 6 -> "sunday"
InRange(c, d) == c.start_date <= d /\ d <= c.end_date
RunsOn(c, d) == InRange(c, d) /\ c[WeekdayFlag(d)]
NoDuplicates(s) == \A i, j \in DOMAIN s : s[i] = s[j] => i = j

(***************************************************************************)
(* C6: when start_stop or final_stop occurs in no stop_times row, both     *)
(* search_trips_availables and get_trips_if_exists return an empty list    *)
(* and raise no error.                                                     *)
(***************************************************************************)
C6_UnknownStopGivesEmpty ==
    (start_stop \notin StopsInStopTimes \/ final_stop \notin StopsInStopTimes)
    => /\ list_trips_available = <<>>
       /\ list_dates_available = <<>>
       /\ error = "none"

(***************************************************************************)
(* C7: search_trips_availables returns exactly the trips of the topology   *)
(* list that have a row in trips whose service has a calendar row with     *)
(* start_date <= date <= end_date and the flag of date's weekday true.     *)
(***************************************************************************)
C7_ExactlyTheTripsRunningOnDate ==
    Range(list_trips_available) =
        {t \in Range(list_trips) : \E c \in ServicesOf(t) : RunsOn(c, date)}

\* one listed trip runs on the date, the last day of its service; another,
\* with a row in trips, does not
C7_Witness ==
    /\ \E t \in Range(list_trips_available) :
          \E c \in ServicesOf(t) : RunsOn(c, date) /\ date = c.end_date
    /\ \E u \in Range(list_trips) :
          ~Isin(u, list_trips_available) /\ TripRowsOf(u) # {}

(***************************************************************************)
(* C8: the list search_trips_availables returns holds no trip_id twice and *)
(* only trips of the topology list; it is empty when no backing service    *)
(* matches the date.                                                       *)
(***************************************************************************)
C8_DistinctSubsetOfTopology ==
    /\ NoDuplicates(list_trips_available)
    /\ Range(list_trips_available) \subseteq Range(list_trips)
    /\ (\A t \in Range(list_trips) : \A c \in ServicesOf(t) : ~RunsOn(c, date))
          => list_trips_available = <<>>

\* a returned trip that two services run on the date: the join holds it twice
C8_Witness ==
    \E t \in Range(list_trips_available) :
        Cardinality({c \in ServicesOf(t) : RunsOn(c, date)}) >= 2

(***************************************************************************)
(* C9: when the topology list is not empty and date is outside             *)
(* [start_date, end_date] of every service backing its trips,              *)
(* search_trips_availables returns an empty list, whatever the flags.      *)
(***************************************************************************)
C9_DateOutsideEveryRange ==
    (/\ list_trips # <<>>
     /\ \A t \in Range(list_trips) : \A c \in ServicesOf(t) : ~InRange(c, date))
    => list_trips_available = <<>>

\* a backing service with the weekday's flag set, whose range ended before date
C9_Witness ==
    /\ list_trips # <<>>
    /\ \A t \in Range(list_trips) : \A c \in ServicesOf(t) : ~InRange(c, date)
    /\ \E t \in Range(list_trips) : \E c \in ServicesOf(t) :
          c[WeekdayFlag(date)] /\ c.start_date <= c.end_date /\ c.end_date < date
    /\ list_trips_available = <<>>

(***************************************************************************)
(* C10, as claimed: when the topology list is empty both functions return  *)
(* an empty list and neither performs the trips/calendar join.             *)
(***************************************************************************)
C10_EmptyTopologyNoJoin ==
    list_trips = <<>>
    => /\ list_trips_available = <<>>
       /\ list_dates_available = <<>>
       /\ error = "none"
       /\ joined = {}

(***************************************************************************)
(* C10, amended: when the topology list is empty both functions return an  *)
(* empty list whatever trips and calendar hold; get_trips_if_exists        *)
(* returns before its join, search_trips_availables runs its join, over an *)
(* empty selection of trips.                                               *)
(***************************************************************************)
C10_EmptyTopologyGivesEmpty ==
    list_trips = <<>>
    => /\ list_trips_available = <<>>
       /\ list_dates_available = <<>>
       /\ error = "none"
       /\ joined = {"search_trips_availables"}
       /\ LocTrips(df_trips, list_trips) = <<>>

\* nothing listed while trips has rows and a service runs on the date
C10_Witness ==
    /\ list_trips = <<>>
    /\ start_stop # final_stop
    /\ df_trips # <<>>
    /\ \E c \in Range(df_calendar) : RunsOn(c, date)
    /\ list_trips_available = <<>> /\ list_dates_available = <<>>

(***************************************************************************)
(* Vocabulary of the properties of get_trips_if_exists.                    *)
(***************************************************************************)
\* the dates on which some service backing a listed trip runs
DatesServed ==
    {d \in Dates : \E t \in Range(list_trips) : \E c \in ServicesOf(t) : RunsOn(c, d)}

(***************************************************************************)
(* C11: for a non-empty topology list get_trips_if_exists returns exactly  *)
(* the dates d with start_date <= d <= end_date and the flag of d's        *)
(* weekday true for some service backing a listed trip, each date once.    *)
(***************************************************************************)
C11_ExactlyTheDatesServed ==
    list_trips # <<>>
    => /\ error = "none"
       /\ Range(list_dates_available) = {AsTypeStr(d) : d \in DatesServed}
       /\ NoDuplicates(list_dates_available)

(***************************************************************************)
(* C12: for a service with only the monday flag, start_date 2025-01-06 (a  *)
(* Monday) and end_date 2025-01-20, the dates computed for a trip backed   *)
(* by it are exactly 2025-01-06, 2025-01-13 and 2025-01-20.                *)
(***************************************************************************)
C12_MondaysOfTheScenario ==
    list_trips # <<>>
    => /\ error = "none"
       /\ Range(list_dates_available) = {"2025-01-06", "2025-01-13", "2025-01-20"}
       /\ NoDuplicates(list_dates_available)

C12_Witness ==
    /\ list_trips = <<"T1">>
    /\ date = ScenarioEnd
    /\ list_dates_available = <<"2025-01-06", "2025-01-13", "2025-01-20">>

(***************************************************************************)
(* C13: a service with start_date after end_date contributes no date to    *)
(* get_trips_if_exists, matches no date in search_trips_availables, and    *)
(* makes neither fail.                                                     *)
(***************************************************************************)
C13_InvertedRangeContributesNothing ==
    (\E t \in Range(list_trips) : \E c \in ServicesOf(t) : c.start_date > c.end_date)
    => /\ error = "none"
       /\ Range(list_dates_available) = {AsTypeStr(d) : d \in DatesServed}
       /\ Range(list_trips_available) =
             {t \in Range(list_trips) : \E c \in ServicesOf(t) : RunsOn(c, date)}

(***************************************************************************)
(* C14: when the topology list is not empty and no backing service yields  *)
(* a date (every flag false, or no calendar row for the service), both     *)
(* functions return an empty list and raise no error.                      *)
(***************************************************************************)
C14_NoValidDateGivesEmpty ==
    (/\ list_trips # <<>>
     /\ \A t \in Range(list_trips) : \A c \in ServicesOf(t) :
            \A day \in Range(weekdays) : ~c[day])
    => /\ list_trips_available = <<>>
       /\ list_dates_available = <<>>
       /\ error = "none"

(***************************************************************************)
(* C15: date is in the list get_trips_if_exists returns iff                *)
(* search_trips_availables returns a non-empty list for that date.         *)
(***************************************************************************)
C15_DatesAgreeWithSearch ==
    /\ error = "none"
    /\ Isin(AsTypeStr(date), list_dates_available) <=> list_trips_available # <<>>

(***************************************************************************)
(* C16: the page writes that no trips stop by the two stops only when the  *)
(* topology list is empty, never when a trip visits the pair in order and  *)
(* its services yield no date.                                             *)
(***************************************************************************)
C16_NoTripsMessageOnlyWithoutMatch ==
    message = "no_trips_for_stops" => list_trips = <<>>

(***************************************************************************)
(* Vocabulary of the geometry properties: the tables read as relations.    *)
(***************************************************************************)
\* the shapes rows of the shape of trip t
ShapeRowsOf(t) ==
    {r \in Range(df_shapes) : \E tr \in Range(df_trips) :
        tr.trip_id = t /\ tr.shape_id = r.shape_id}
\* the rows of R that come before r along the shape
Before(R, r) == {q \in R : q.shape_pt_sequence < r.shape_pt_sequence}
\* get_trip_shapes was called with a list and returned
ShapesReturned == call = "get_trip_shapes" /\ ~trip_id_list.is_none

(***************************************************************************)
(* C17: for every list passed to get_trip_shapes, the keys of the returned *)
(* dictionary are exactly the trip ids of the list; a requested trip with  *)
(* no shapes rows or no trips row is a key with an empty list, and a       *)
(* repeated id is one key.                                                 *)
(***************************************************************************)
C17_KeysAreTheRequestedTrips ==
    ShapesReturned
    => /\ returned.raised = "none"
       /\ DOMAIN returned.value = Range(trip_id_list.list)
       /\ \A t \in Range(trip_id_list.list) :
              ShapeRowsOf(t) = {} => returned.value[t] = <<>>

C17_Witness ==
    /\ ShapesReturned
    /\ trip_id_list.list = <<"T1", UnknownTrip>>
    /\ returned.value["T1"] # <<>>
    /\ returned.value[UnknownTrip] = <<>>

(***************************************************************************)
(* C18: for every requested trip, the list get_trip_shapes returns is the  *)
(* (lat, lon) points of the shapes rows of the trip's shape_id, one per    *)
(* row, in ascending shape_pt_sequence, whatever the row order of shapes.  *)
(***************************************************************************)
C18_PointsInSequenceOrder ==
    ShapesReturned
    => \A t \in Range(trip_id_list.list) :
          /\ t \in DOMAIN returned.value
          /\ Len(returned.value[t]) = Cardinality(ShapeRowsOf(t))
          /\ \A r \in ShapeRowsOf(t) :
                returned.value[t][Cardinality(Before(ShapeRowsOf(t), r)) + 1]
                    = <<r.shape_pt_lat, r.shape_pt_lon>>

\* the shapes table holds two points of the trip's shape in descending order
C18_Witness ==
    /\ ShapesReturned
    /\ \E t \in Range(trip_id_list.list) :
          /\ Len(returned.value[t]) >= 2
          /\ \E i, j \in DOMAIN df_shapes :
                /\ i < j
                /\ df_shapes[i] \in ShapeRowsOf(t) /\ df_shapes[j] \in ShapeRowsOf(t)
                /\ df_shapes[i].shape_pt_sequence > df_shapes[j].shape_pt_sequence

(***************************************************************************)
(* C19: get_trip_shapes called with trip_id_list = None processes all the  *)
(* trips of df_trips: the call succeeds and the result has one key per     *)
(* trip_id of df_trips.                                                    *)
(***************************************************************************)
C19_NoneProcessesAllTrips ==
    (call = "get_trip_shapes" /\ trip_id_list.is_none)
    => /\ returned.raised = "none"
       /\ DOMAIN returned.value = Range(Column(df_trips, "trip_id"))

(***************************************************************************)
(* C20: for every requested trip, the rows get_trip_stops returns for that *)
(* trip_id are in ascending stop_sequence order, for every row order of    *)
(* stop_times and stops.                                                   *)
(***************************************************************************)
C20_StopsInSequenceOrder ==
    call = "get_trip_stops"
    => \A i, j \in DOMAIN returned.value :
          (i < j /\ returned.value[i].trip_id = returned.value[j].trip_id)
              => returned.value[i].stop_sequence < returned.value[j].stop_sequence

(***************************************************************************)
(* Vocabulary of the get_trip_stops properties.                            *)
(***************************************************************************)
\* the stop_times rows get_trip_stops has to return for the list: the trip is
\* requested and in trips, the stop is in stops
RequestedStopTimes(list) ==
    {r \in Range(df_stop_times) :
        /\ Isin(r.trip_id, list)
        /\ \E t \in Range(df_trips) : t.trip_id = r.trip_id
        /\ \E x \in Range(df_stops) : x.stop_id = r.stop_id}
\* the stops row of a stop_id
StopOf(id) == CHOOSE x \in Range(df_stops) : x.stop_id = id
\* a stop_times row with the columns of its stop
WithStop(r) ==
    [trip_id |-> r.trip_id, stop_id |-> r.stop_id, stop_sequence |-> r.stop_sequence,
     stop_code |-> StopOf(r.stop_id).stop_code, stop_name |-> StopOf(r.stop_id).stop_name,
     stop_lat |-> StopOf(r.stop_id).stop_lat, stop_lon |-> StopOf(r.stop_id).stop_lon]

(***************************************************************************)
(* C21: with trip_id unique in trips, stop_id unique in stops and          *)
(* stop_sequence unique per trip, no two rows of get_trip_stops have the   *)
(* same (trip_id, stop_sequence), also when the list repeats a trip id.    *)
(***************************************************************************)
C21_NoDuplicateStopRows ==
    call = "get_trip_stops"
    => \A i, j \in DOMAIN returned.value :
          (/\ returned.value[i].trip_id = returned.value[j].trip_id
           /\ returned.value[i].stop_sequence = returned.value[j].stop_sequence)
              => i = j

C21_Witness ==
    /\ call = "get_trip_stops"
    /\ trip_id_list = Some(<<"T1", "T1">>)
    /\ Len(returned.value) >= 2

(***************************************************************************)
(* C22: the rows of get_trip_stops are exactly the stop_times rows whose   *)
(* trip_id is requested and in trips and whose stop_id is in stops, each   *)
(* with that stop's stop_code, stop_name, stop_lat and stop_lon.           *)
(***************************************************************************)
C22_ExactlyTheRequestedStopTimes ==
    call = "get_trip_stops"
    => /\ Range(returned.value) = {WithStop(r) : r \in RequestedStopTimes(trip_id_list.list)}
       /\ Len(returned.value) = Cardinality(RequestedStopTimes(trip_id_list.list))

\* stop_times holds a returned row, a row of a trip that is not requested and a
\* row at a stop that stops does not have
C22_Witness ==
    /\ call = "get_trip_stops"
    /\ returned.value # <<>>
    /\ \E r \in Range(df_stop_times) : ~Isin(r.trip_id, trip_id_list.list)
    /\ \E r \in Range(df_stop_times) :
          /\ Isin(r.trip_id, trip_id_list.list)
          /\ \A x \in Range(df_stops) : x.stop_id # r.stop_id

(***************************************************************************)
(* C26: on the Search page exactly one of the three result messages is     *)
(* written for every tables, stop pair and date; list_trips_available is   *)
(* never non-empty while list_dates_available is empty, so a run in which  *)
(* search_trips_availables returns a trip writes the trips-available       *)
(* message.                                                                *)
(***************************************************************************)
C26_ExactlyOneMessage ==
    /\ message \in {"no_trips_for_stops", "trips_available", "other_dates"}
    /\ ~(list_trips_available # <<>> /\ list_dates_available = <<>>)
    /\ list_trips_available # <<>> => message = "trips_available"

SameCallAgain == call # "none" /\ remembered.call = call /\ remembered.args = ArgsOf
\* two results are both the same exception or hold the same elements
SetEqual(r1, r2) ==
    /\ r1.raised = r2.raised
    /\ IF call = "get_trip_shapes" THEN r1.value = r2.value
       ELSE Range(r1.value) = Range(r2.value)

C24_TablesNeverChange ==
    /\ [][tables' = tables]_vars
    /\ [](\A r \in Range(df_trips) \cup Range(df_calendar) :
              "days" \notin DOMAIN r /\ "days_available" \notin DOMAIN r)

\* get_trips_if_exists returned dates after a call of another function
C24_Witness ==
    /\ call = "get_trips_if_exists"
    /\ returned.value # <<>>
    /\ remembered.call = "get_trip_stops"

(***************************************************************************)
(* C25: the loader of a feed file fails with a propagated error when the   *)
(* file is missing; for an empty file it returns a zero-row table of the   *)
(* correct schema, on which the core operations yield empty results and no *)
(* error.                                                                  *)
(***************************************************************************)
C25_MissingFailsEmptyLoadsEmpty ==
    loaded.loader # "none"
    => /\ disk.file.state = "missing" => loaded.raised = "FileNotFoundError"
       /\ disk.file.state = "empty"
            => /\ loaded.raised = "none"
               /\ loaded.columns = CalendarColumns
               /\ loaded.rows = <<>>
               /\ call # "none" => returned = [raised |-> "none", value |-> <<>>]

\* a value the feed's data gives under outer.inner: a string that is not empty
Present(feed_data, outer, inner) ==
    /\ outer \in DOMAIN feed_data
    /\ feed_data[outer].t = "obj"
    /\ inner \in DOMAIN feed_data[outer].o
    /\ feed_data[outer].o[inner].t = "str"
    /\ feed_data[outer].o[inner].s # ""

ValueAt(feed_data, outer, inner) == feed_data[outer].o[inner].s

\* the metadata request was answered and lines 178-184 have run
UrlSelected ==
    /\ download.pc \notin {"idle", "validate", "metadata", "select"}
    /\ requests_made # <<>>
    /\ ~(download.pc = "raised" /\ download.raised = "HTTPError" /\ Len(requests_made) = 1)

\* C28: with an empty access_token or feed_id download_gtfs_feed raises
\* ValueError before any HTTP request; otherwise the file is requested from
\* latest_dataset.hosted_url when that is present and not empty, else from
\* source_info.producer_url, and when neither exists ValueError is raised with
\* no download, no extract directory created and no timestamp.txt written.
C28_ValidatesThenPrefersHostedUrl ==
    /\ (download.pc \notin {"idle", "validate"}
          /\ (download.access_token = "" \/ download.feed_id = ""))
       => /\ download.pc = "raised"
          /\ download.raised = "ValueError"
          /\ requests_made = <<>>
    /\ UrlSelected =>
         LET feed_data == download.feed_data
             hosted == Present(feed_data, "latest_dataset", "hosted_url")
             producer == Present(feed_data, "source_info", "producer_url")
         IN IF hosted \/ producer
            THEN /\ Len(requests_made) >= 2 \/ download.pc = "download"
                 /\ download.download_url =
                       IF hosted THEN ValueAt(feed_data, "latest_dataset", "hosted_url")
                       ELSE ValueAt(feed_data, "source_info", "producer_url")
                 /\ Len(requests_made) >= 2 => requests_made[2] = download.download_url
            ELSE /\ download.pc = "raised"
                 /\ download.raised = "ValueError"
                 /\ Len(requests_made) = 1
                 /\ disk.extract_dir = download.dir_before
                 /\ disk.timestamp = download.timestamp_before

\* C29: timestamp.txt is written only after the archive was downloaded and
\* extracted (a failed metadata request, a failed download and an invalid zip
\* leave the file as it was), and what is written is the feed's
\* latest_dataset.downloaded_at when the feed gives one, else the current time.
C29_TimestampOnlyAfterExtraction ==
    /\ download.pc # "idle" =>
         /\ disk.timestamp # download.timestamp_before =>
               /\ download.pc = "returned"
               /\ download.extracted
               /\ Len(requests_made) = 2
         /\ download.pc = "raised" => disk.timestamp = download.timestamp_before
         /\ download.pc = "returned" =>
               disk.timestamp =
                  IF Present(download.feed_data, "latest_dataset", "downloaded_at")
                  THEN ValueAt(download.feed_data, "latest_dataset", "downloaded_at")
                  ELSE Now

\* a download that replaced an older timestamp.txt by the feed's downloaded_at
C29_Witness ==
    /\ download.pc = "returned"
    /\ download.timestamp_before = OldTimestamp
    /\ disk.timestamp = DownloadedAt
    /\ download.download_url = ProducerUrl

\* the number of arrivals of a response
RECURSIVE TotalArrivals(_)
TotalArrivals(items) ==
    IF items = <<>> THEN 0
    ELSE Len(Get(Head(items).entry, "arrivals", <<>>)) + TotalArrivals(Tail(items))

LacksArrivals(items) ==
    \E i \in 1..Len(items) : "arrivals" \notin DOMAIN items[i].entry

\* C30: get_df_from_live_data raises ValueError for a response that is empty
\* or no dictionary, raises KeyError when a stop's entry has no 'arrivals'
\* key, and otherwise returns one row per arrival carrying its stop_id, as
\* many rows as there are arrivals, none for a stop without arrivals.
C30_OneRowPerArrivalOrRaises ==
    call = "get_df_from_live_data" =>
        IF response.items = <<>> \/ response.t # "dict"
        THEN returned.raised = "ValueError"
        ELSE IF LacksArrivals(response.items)
        THEN returned.raised = "KeyError"
        ELSE /\ returned.raised = "none"
             /\ Len(returned.value) = TotalArrivals(response.items)
             /\ \A i \in 1..Len(response.items) :
                   LET stop_id == response.items[i].stop_id
                       of_stop == SelectSeq(returned.value, LAMBDA row : row.stop_id = stop_id)
                   IN of_stop = TaggedRows(response.items[i].entry["arrivals"], stop_id)

====
